---- MODULE Spec2Model ----
(***************************************************************************)
(* pyChess: the Board (src/src/game/board.py) and the Piece hierarchy      *)
(* (src/src/game/piece.py) as a state machine.                             *)
(*                                                                         *)
(* Piece objects are identified by their index in the sequence `pieces`;   *)
(* the grid holds these indices (None = 0).  A piece keeps its own         *)
(* recorded file/rank, which the code updates separately from the grid.    *)
(* Python list indexing is modelled as it behaves: an index in -8..-1      *)
(* wraps around, an index outside -8..7 raises IndexError.  An operation   *)
(* that can raise returns a record with a `raised` flag and the world as   *)
(* the exception leaves it.                                                *)
(***************************************************************************)
EXTENDS Integers, Sequences, FiniteSets, TLC

\* ------------------------------------------------------------------ bounds
MaxPly == 2

\* --------------------------------------------------------------- constants
N == 8
DrawClock == 100
None == 0

WHITE == "WHITE"
BLACK == "BLACK"
PAWN == "PAWN"
KNIGHT == "KNIGHT"
BISHOP == "BISHOP"
ROOK == "ROOK"
QUEEN == "QUEEN"
KING == "KING"

Files == 0..(N - 1)
Ranks == 0..(N - 1)

\* ------------------------------------------------- Python list indexing
\* self.board[rank][file]: an index i is valid iff -8 <= i <= 7
InRange(i) == i >= -N /\ i < N
PyIndex(i) == IF i < 0 THEN i + N ELSE i

\* World: [board, pieces, white_king, black_king]
get_piece(w, file, rank) == w.board[PyIndex(rank)][PyIndex(file)]

set_piece(w, file, rank, piece) ==
    [w EXCEPT !.board[PyIndex(rank)][PyIndex(file)] = piece]

get_position(w, self) == <<w.pieces[self].file, w.pieces[self].rank>>

set_position(w, self, file, rank) ==
    [w EXCEPT !.pieces[self].file = file, !.pieces[self].rank = rank]

\* ------------------------------------------------------ Board.move_piece
\* returns the world after the move and the previous occupant of destination
move_piece(w, piece, destination) ==
    LET file == destination[1]
        rank == destination[2]
        captured_piece == get_piece(w, file, rank)
        w1 == set_piece(w, file, rank, piece)
        w2 == set_piece(w1, w.pieces[piece].file, w.pieces[piece].rank, None)
    IN  [w |-> set_position(w2, piece, file, rank), captured_piece |-> captured_piece]

\* ------------------------------------------------------- Board.undo_move
undo_move_keep_position(w, piece, original_position, captured_piece) ==
    LET w1 == set_piece(w, original_position[1], original_position[2], piece)
    IN  set_piece(w1, w.pieces[piece].file, w.pieces[piece].rank, captured_piece)

undo_move(w, piece, original_position, captured_piece) ==
    LET original_file == original_position[1]
        original_rank == original_position[2]
        current == get_position(w, piece)
        w1 == set_piece(w, original_file, original_rank, piece)
        w2 == set_position(w1, piece, original_file, original_rank)
    IN  set_piece(w2, current[1], current[2], captured_piece)

\* ---------------------------------------------------- Board.promote_pawn
promote_pawn_unrecorded(w, pawn, new_piece, square) ==
    LET w1 == set_piece(w, w.pieces[pawn].file, w.pieces[pawn].rank, None)
    IN  set_piece(w1, square[1], square[2], new_piece)

\* new_piece is an already constructed piece object (an index of w.pieces)
promote_pawn(w, pawn, new_piece, square) ==
    LET w1 == set_piece(w, w.pieces[pawn].file, w.pieces[pawn].rank, None)
        w2 == set_piece(w1, square[1], square[2], new_piece)
    IN  set_position(w2, new_piece, square[1], square[2])

\* --------------------------------------------------------- King.in_check
OnBoard(x, y) == 0 <= x /\ x < N /\ 0 <= y /\ y < N

BishopDirs == << <<1, 1>>, <<1, -1>>, <<-1, -1>>, <<-1, 1>> >>
RookDirs == << <<1, 0>>, <<0, 1>>, <<-1, 0>>, <<0, -1>> >>
KnightOffsets == << <<1, 2>>, <<2, 1>>, <<2, -1>>, <<1, -2>>,
                    <<-1, -2>>, <<-2, -1>>, <<-2, 1>>, <<-1, 2>> >>
PawnAttacks == <<-1, 1>>

Direction(colour) == IF colour = WHITE THEN 1 ELSE -1

\* Colour.WHITE if self.active_colour == Colour.BLACK else Colour.BLACK
Other(colour) == IF colour = BLACK THEN WHITE ELSE BLACK

\* the first occupant of the ray from (file, rank) in direction d is an
\* opposing piece of one of the given types
RayThreat(w, colour, file, rank, d, types) ==
    \E n \in 1..(N - 1) :
        /\ OnBoard(file + n * d[1], rank + n * d[2])
        /\ LET target == get_piece(w, file + n * d[1], rank + n * d[2])
           IN  /\ target # None
               /\ w.pieces[target].colour # colour
               /\ w.pieces[target].piece_type \in types
        /\ \A m \in 1..(n - 1) :
               get_piece(w, file + m * d[1], rank + m * d[2]) = None

\* a king reference of None raises AttributeError; reading rank + direction
\* outside the list raises IndexError unless an earlier test returned True
in_check(w, king) ==
    IF king = None THEN [raised |-> TRUE, value |-> FALSE]
    ELSE
    LET file == w.pieces[king].file
        rank == w.pieces[king].rank
        colour == w.pieces[king].colour
        direction == Direction(colour)
        Reads(attack) == 0 <= file + attack /\ file + attack < N
        PawnAt(attack) ==
            LET target == get_piece(w, file + attack, rank + direction)
            IN  /\ target # None
                /\ w.pieces[target].colour # colour
                /\ w.pieces[target].piece_type = PAWN
    IN  IF \E i \in 1..4 : RayThreat(w, colour, file, rank, BishopDirs[i], {BISHOP, QUEEN})
        THEN [raised |-> FALSE, value |-> TRUE]
        ELSE IF \E i \in 1..4 : RayThreat(w, colour, file, rank, RookDirs[i], {ROOK, QUEEN})
        THEN [raised |-> FALSE, value |-> TRUE]
        ELSE IF \E i \in 1..8 :
                    /\ OnBoard(file + KnightOffsets[i][1], rank + KnightOffsets[i][2])
                    /\ LET target == get_piece(w, file + KnightOffsets[i][1],
                                                  rank + KnightOffsets[i][2])
                       IN  /\ target # None
                           /\ w.pieces[target].colour # colour
                           /\ w.pieces[target].piece_type = KNIGHT
        THEN [raised |-> FALSE, value |-> TRUE]
        ELSE IF (Reads(-1) \/ Reads(1)) /\ ~InRange(rank + direction)
        THEN [raised |-> TRUE, value |-> FALSE]
        ELSE [raised |-> FALSE,
              value |-> \E i \in 1..2 : Reads(PawnAttacks[i]) /\ PawnAt(PawnAttacks[i])]

\* ------------------------------------------- pseudo-legal move generation
\* Each generator returns [raised, moves]: the list built by the code, in
\* the code's order, or raised = TRUE when a grid read raises IndexError.

Colour(w, self) == w.pieces[self].colour

\* target is None or a piece of the other colour
FreeOrOpposing(w, self, x, y) ==
    LET target == get_piece(w, x, y)
    IN  target = None \/ w.pieces[target].colour # Colour(w, self)

Opposing(w, self, x, y) ==
    LET target == get_piece(w, x, y)
    IN  target # None /\ w.pieces[target].colour # Colour(w, self)

\* Pawn.generate_moves, lines 195-205
PawnCandidates(w, self) ==
    LET file == w.pieces[self].file
        rank == w.pieces[self].rank
        direction == Direction(Colour(w, self))
        one == <<file, rank + direction>>
        two == <<file, rank + 2 * direction>>
        ahead == get_piece(w, file, rank + direction) = None
        double == rank = 1 \/ rank = 6
        forward ==
            IF ~ahead THEN <<>>
            ELSE IF double /\ get_piece(w, file, rank + 2 * direction) = None
                 THEN <<one, two>>
                 ELSE <<one>>
        Capture(attack) ==
            IF 0 <= file + attack /\ file + attack < N
               /\ Opposing(w, self, file + attack, rank + direction)
            THEN << <<file + attack, rank + direction>> >>
            ELSE <<>>
    IN  IF ~InRange(rank + direction)
        THEN [raised |-> TRUE, moves |-> <<>>]
        ELSE IF ahead /\ double /\ ~InRange(rank + 2 * direction)
        THEN [raised |-> TRUE, moves |-> <<>>]
        ELSE [raised |-> FALSE,
              moves |-> forward \o Capture(PawnAttacks[1]) \o Capture(PawnAttacks[2])]

\* the offsets of a leaper (knight) kept in the code's order
LeaperCandidates(w, self, offsets) ==
    LET file == w.pieces[self].file
        rank == w.pieces[self].rank
        Keep(o) == /\ OnBoard(file + o[1], rank + o[2])
                   /\ FreeOrOpposing(w, self, file + o[1], rank + o[2])
        kept == SelectSeq(offsets, Keep)
    IN  [i \in 1..Len(kept) |-> <<file + kept[i][1], rank + kept[i][2]>>]

KnightCandidates_any_target(w, self) ==
    LET file == w.pieces[self].file
        rank == w.pieces[self].rank
        Keep(o) == OnBoard(file + o[1], rank + o[2])
        kept == SelectSeq(KnightOffsets, Keep)
    IN  [i \in 1..Len(kept) |-> <<file + kept[i][1], rank + kept[i][2]>>]

\* Knight.generate_moves, lines 243-249
KnightCandidates(w, self) == LeaperCandidates(w, self, KnightOffsets)

\* King.generate_moves, lines 422-432: dx outer loop, dy inner loop
KingOffsets == << <<-1, -1>>, <<-1, 0>>, <<-1, 1>>, <<0, -1>>,
                  <<0, 1>>, <<1, -1>>, <<1, 0>>, <<1, 1>> >>

KingCandidates(w, self) == LeaperCandidates(w, self, KingOffsets)

\* one ray of a slider: the empty squares up to the first occupied square
\* or the edge, plus that square when it holds an opposing piece
RayMoves(w, self, d) ==
    LET file == w.pieces[self].file
        rank == w.pieces[self].rank
        Taken(n) ==
            /\ OnBoard(file + n * d[1], rank + n * d[2])
            /\ \A m \in 1..(n - 1) :
                   get_piece(w, file + m * d[1], rank + m * d[2]) = None
            /\ FreeOrOpposing(w, self, file + n * d[1], rank + n * d[2])
        k == Cardinality({n \in 1..(N - 1) : Taken(n)})
    IN  [i \in 1..k |-> <<file + i * d[1], rank + i * d[2]>>]

\* a ray that runs on behind an opposing piece it can take
RayMoves_past_capture(w, self, d) ==
    LET file == w.pieces[self].file
        rank == w.pieces[self].rank
        Taken(n) ==
            /\ OnBoard(file + n * d[1], rank + n * d[2])
            /\ \A m \in 1..n :
                   FreeOrOpposing(w, self, file + m * d[1], rank + m * d[2])
        k == Cardinality({n \in 1..(N - 1) : Taken(n)})
    IN  [i \in 1..k |-> <<file + i * d[1], rank + i * d[2]>>]

SliderCandidates_past_capture(w, self, dirs) ==
    RayMoves_past_capture(w, self, dirs[1]) \o RayMoves_past_capture(w, self, dirs[2])
        \o RayMoves_past_capture(w, self, dirs[3]) \o RayMoves_past_capture(w, self, dirs[4])

\* Bishop.generate_moves, lines 278-292 / Rook.generate_moves, lines 330-344
SliderCandidates(w, self, dirs) ==
    RayMoves(w, self, dirs[1]) \o RayMoves(w, self, dirs[2])
        \o RayMoves(w, self, dirs[3]) \o RayMoves(w, self, dirs[4])

\* ------------------------------------------------------- legality filters
\* An intermediate result of the code (a local variable) is passed on as an
\* operator argument, so that it is computed once.

OwnKing(w, self) == IF Colour(w, self) = WHITE THEN w.white_king ELSE w.black_king

Result(raised, moves, w) == [raised |-> raised, moves |-> moves, w |-> w, calls |-> <<>>]

\* Each filter returns [raised, moves, w, calls].  When in_check raises
\* inside the loop the exception leaves the loop before undo_move: w is then
\* the world with the simulated move still applied.  calls lists the filter
\* calls made so far during one generate_moves, each with the piece and the
\* list it was given.
Called(name, self, moves, f) ==
    [f EXCEPT !.calls = <<[filter |-> name, piece |-> self, moves |-> moves]>> \o @]

\* f2 is computed after f1 in the same generate_moves
After(f1, f2) == [f2 EXCEPT !.calls = f1.calls \o @]

RECURSIVE SelfCheckLoop(_, _, _, _, _)

\* lines 125-127: the test of the king, then undo_move
SelfCheckTest(self, moves, i, filtered_moves, original_position, m, chk) ==
    IF chk.raised THEN Result(TRUE, filtered_moves, m.w)
    ELSE SelfCheckLoop(undo_move(m.w, self, original_position, m.captured_piece),
                       self, moves, i + 1,
                       IF chk.value THEN filtered_moves
                                    ELSE Append(filtered_moves, moves[i]))

\* lines 122-124: m is the result of move_piece
SelfCheckMoved(self, moves, i, filtered_moves, original_position, m) ==
    SelfCheckTest(self, moves, i, filtered_moves, original_position, m,
                  in_check(m.w, OwnKing(m.w, self)))

\* lines 120-121
SelfCheckLoop(w, self, moves, i, filtered_moves) ==
    IF i > Len(moves) THEN Result(FALSE, filtered_moves, w)
    ELSE SelfCheckMoved(self, moves, i, filtered_moves, get_position(w, self),
                        move_piece(w, self, moves[i]))

filter_self_check_moves_keep_all(w, self, moves) == Result(FALSE, moves, w)

\* Piece.filter_self_check_moves
filter_self_check_moves(w, self, moves) ==
    Called("filter_self_check_moves", self, moves, SelfCheckLoop(w, self, moves, 1, <<>>))

RECURSIVE InCheckLoop(_, _, _, _, _, _)

\* lines 150-152
InCheckTest(self, king, moves, i, filtered_moves, original_position, m, chk) ==
    IF chk.raised THEN Result(TRUE, filtered_moves, m.w)
    ELSE InCheckLoop(undo_move(m.w, self, original_position, m.captured_piece),
                     self, king, moves, i + 1,
                     IF chk.value THEN filtered_moves
                                  ELSE Append(filtered_moves, moves[i]))

\* line 149: m is the result of move_piece
InCheckMoved(self, king, moves, i, filtered_moves, original_position, m) ==
    InCheckTest(self, king, moves, i, filtered_moves, original_position, m,
                in_check(m.w, king))

\* lines 147-148
InCheckLoop(w, self, king, moves, i, filtered_moves) ==
    IF i > Len(moves) THEN Result(FALSE, filtered_moves, w)
    ELSE InCheckMoved(self, king, moves, i, filtered_moves, get_position(w, self),
                      move_piece(w, self, moves[i]))

\* lines 143-146: now is the result of the first king.in_check(board)
InCheckNow(w, self, king, moves, now) ==
    IF now.raised THEN Result(TRUE, <<>>, w)
    ELSE IF ~now.value THEN Result(FALSE, moves, w)
    ELSE InCheckLoop(w, self, king, moves, 1, <<>>)

\* Piece.filter_in_check_moves
filter_in_check_moves(w, self, moves) ==
    Called("filter_in_check_moves", self, moves,
           InCheckNow(w, self, OwnKing(w, self), moves, in_check(w, OwnKing(w, self))))

\* --------------------------------------------------------- generate_moves
\* self.moves = moves; return moves
StoreMoves(self, f) ==
    IF f.raised THEN f
    ELSE [f EXCEPT !.w.pieces[self].moves = f.moves]

\* moves = self.filter_in_check_moves(board, moves)
ThenInCheck(self, f1) ==
    IF f1.raised THEN f1
    ELSE After(f1, StoreMoves(self, filter_in_check_moves(f1.w, self, f1.moves)))

\* the tail shared by Pawn, Knight, Bishop, Rook and King: both filters,
\* then self.moves = moves
FilterBoth(w, self, cand) ==
    IF cand.raised THEN Result(TRUE, <<>>, w)
    ELSE ThenInCheck(self, filter_self_check_moves(w, self, cand.moves))

Unfiltered(w, self, cand) ==
    IF cand.raised THEN Result(TRUE, <<>>, w)
    ELSE StoreMoves(self, Result(FALSE, cand.moves, w))

Listed(moves) == [raised |-> FALSE, moves |-> moves]

Pawn_generate_moves(w, self) == FilterBoth(w, self, PawnCandidates(w, self))

Knight_generate_moves_unfiltered(w, self) ==
    Unfiltered(w, self, Listed(KnightCandidates(w, self)))

Knight_generate_moves(w, self) ==
    FilterBoth(w, self, Listed(KnightCandidates(w, self)))

Bishop_generate_moves(w, self) ==
    FilterBoth(w, self, Listed(SliderCandidates(w, self, BishopDirs)))

Rook_generate_moves(w, self) ==
    FilterBoth(w, self, Listed(SliderCandidates(w, self, RookDirs)))

\* lines 387-390: moves = rook_moves + bishop_moves, filter_self_check_moves
QueenBoth(self, rook_moves, bishop_moves) ==
    IF bishop_moves.raised THEN bishop_moves
    ELSE After(bishop_moves,
               StoreMoves(self, filter_self_check_moves(bishop_moves.w, self,
                                    rook_moves.moves \o bishop_moves.moves)))

\* line 386: bishop_moves = Bishop.generate_moves(self, board)
QueenRook(self, rook_moves) ==
    IF rook_moves.raised THEN rook_moves
    ELSE After(rook_moves,
               QueenBoth(self, rook_moves, Bishop_generate_moves(rook_moves.w, self)))

Queen_generate_moves_self_only(w, self) ==
    StoreMoves(self, filter_self_check_moves(w, self,
                         SliderCandidates(w, self, RookDirs)
                             \o SliderCandidates(w, self, BishopDirs)))

\* Queen.generate_moves: Rook.generate_moves(self, board), then
\* Bishop.generate_moves(self, board), then filter_self_check_moves alone
Queen_generate_moves(w, self) == QueenRook(self, Rook_generate_moves(w, self))

King_generate_moves(w, self) ==
    FilterBoth(w, self, Listed(KingCandidates(w, self)))

\* dynamic dispatch on the class of the piece object
generate_moves(w, self) ==
    CASE w.pieces[self].piece_type = PAWN -> Pawn_generate_moves(w, self)
      [] w.pieces[self].piece_type = KNIGHT -> Knight_generate_moves(w, self)
      [] w.pieces[self].piece_type = BISHOP -> Bishop_generate_moves(w, self)
      [] w.pieces[self].piece_type = ROOK -> Rook_generate_moves(w, self)
      [] w.pieces[self].piece_type = QUEEN -> Queen_generate_moves(w, self)
      [] w.pieces[self].piece_type = KING -> King_generate_moves(w, self)

\* ------------------------------------------------------------- game state
\* Board.is_stalemate / Board.is_king_in_checkmate: the scan of the grid,
\* rank 0..7 outer, file 0..7 inner, asking each piece of `colour` for its
\* moves; the first non-empty list ends the scan.  Returns [raised, value, w]
\* (generate_moves writes the moves cache of every piece it is asked for).
RECURSIVE ScanForMoves(_, _, _)

\* moves = piece.generate_moves(self); if moves: return False
ScanAsked(colour, i, gen) ==
    IF gen.raised THEN [raised |-> TRUE, value |-> FALSE, w |-> gen.w]
    ELSE IF gen.moves # <<>> THEN [raised |-> FALSE, value |-> FALSE, w |-> gen.w]
    ELSE ScanForMoves(gen.w, colour, i + 1)

\* the squares from index i on (index = rank * 8 + file) that hold a piece
\* of the colour in the world w
ToAsk(w, colour, i) ==
    {k \in i..(N * N - 1) :
        /\ get_piece(w, k % N, k \div N) # None
        /\ w.pieces[get_piece(w, k % N, k \div N)].colour = colour}

\* the scan skips to the next such square
ScanAt(w, colour, k) ==
    ScanAsked(colour, k, generate_moves(w, get_piece(w, k % N, k \div N)))

ScanRest(w, colour, rest) ==
    IF rest = {} THEN [raised |-> FALSE, value |-> TRUE, w |-> w]
    ELSE ScanAt(w, colour, CHOOSE k \in rest : \A other \in rest : k <= other)

ScanForMoves(w, colour, i) == ScanRest(w, colour, ToAsk(w, colour, i))

is_stalemate(w, active) == ScanForMoves(w, active, 0)

is_king_in_checkmate(w, king) == ScanForMoves(w, w.pieces[king].colour, 0)

\* Game: [w, active_colour, halfmove_clock, fullmove_number, game_active]
\* line 305: st is the result of is_stalemate()
DrawByStalemate(g, st) ==
    IF st.raised THEN [raised |-> TRUE, g |-> [g EXCEPT !.w = st.w]]
    ELSE [raised |-> FALSE,
          g |-> [g EXCEPT !.w = st.w,
                          !.game_active = IF st.value /\ g.game_active
                                          THEN FALSE ELSE @]]

check_for_draw_after_clock(g) ==
    IF g.halfmove_clock > DrawClock
    THEN [raised |-> FALSE, g |-> [g EXCEPT !.game_active = FALSE]]
    ELSE DrawByStalemate(g, is_stalemate(g.w, g.active_colour))

\* Board.check_for_draw
check_for_draw(g) ==
    IF g.halfmove_clock >= DrawClock
    THEN [raised |-> FALSE, g |-> [g EXCEPT !.game_active = FALSE]]
    ELSE DrawByStalemate(g, is_stalemate(g.w, g.active_colour))

update_game_state_count_black(g) ==
    check_for_draw(
        [g EXCEPT !.active_colour = Other(g.active_colour),
                  !.fullmove_number = IF g.active_colour = WHITE THEN @ + 1 ELSE @,
                  !.halfmove_clock = @ + 1])

\* Board.update_game_state
update_game_state(g) ==
    check_for_draw(
        [g EXCEPT !.active_colour = Other(g.active_colour),
                  !.fullmove_number = IF g.active_colour = BLACK THEN @ + 1 ELSE @,
                  !.halfmove_clock = @ + 1])

\* ------------------------------------------------------- position loading
Digits == <<"0", "1", "2", "3", "4", "5", "6", "7", "8", "9">>
isdigit(char) == \E i \in 1..10 : Digits[i] = char
int(char) == (CHOOSE i \in 1..10 : Digits[i] = char) - 1

UpperLetters == <<"P", "N", "B", "R", "Q", "K">>
LowerLetters == <<"p", "n", "b", "r", "q", "k">>
Classes == <<PAWN, KNIGHT, BISHOP, ROOK, QUEEN, KING>>
isupper(char) == \E i \in 1..6 : UpperLetters[i] = char
KnownLetter(char) == \E i \in 1..6 : UpperLetters[i] = char \/ LowerLetters[i] = char
fen_to_class(char) ==
    Classes[CHOOSE i \in 1..6 : UpperLetters[i] = char \/ LowerLetters[i] = char]

\* file and rank of a piece object before set_position (Python None)
NotPlaced == -N - 1

\* Piece.__init__
NewPiece(colour, piece_type) ==
    [piece_type |-> piece_type, colour |-> colour,
     file |-> NotPlaced, rank |-> NotPlaced, moves |-> <<>>]

\* Board.load_fen with Board.create_piece: fen is the placement field as a
\* sequence of characters.  The loop state is [raised, w, file, rank]; one
\* iteration of `for char in fen`:
LoadStep_swapped_case(st, char) ==
    IF st.raised THEN st
    ELSE IF char = "/" THEN [st EXCEPT !.file = 0, !.rank = @ - 1]
    ELSE IF isdigit(char) THEN [st EXCEPT !.file = @ + int(char)]
    ELSE IF ~KnownLetter(char) THEN [st EXCEPT !.raised = TRUE]
    ELSE IF ~InRange(st.file) \/ ~InRange(st.rank)
    THEN [st EXCEPT !.raised = TRUE]
    ELSE [st EXCEPT !.file = @ + 1,
                    !.w.pieces = Append(@, [NewPiece(IF isupper(char) THEN BLACK ELSE WHITE,
                                                     fen_to_class(char))
                                               EXCEPT !.file = st.file, !.rank = st.rank]),
                    !.w.board[PyIndex(st.rank)][PyIndex(st.file)] = Len(st.w.pieces) + 1]

LoadStep(st, char) ==
    IF st.raised THEN st
    ELSE IF char = "/" THEN [st EXCEPT !.file = 0, !.rank = @ - 1]
    ELSE IF isdigit(char) THEN [st EXCEPT !.file = @ + int(char)]
    ELSE IF ~KnownLetter(char) THEN [st EXCEPT !.raised = TRUE]
    ELSE IF ~InRange(st.file) \/ ~InRange(st.rank)
    THEN [st EXCEPT !.raised = TRUE,
                    !.w.pieces = Append(@, [NewPiece(IF isupper(char) THEN WHITE ELSE BLACK,
                                                     fen_to_class(char))
                                               EXCEPT !.file = st.file, !.rank = st.rank])]
    ELSE [st EXCEPT !.file = @ + 1,
                    !.w.pieces = Append(@, [NewPiece(IF isupper(char) THEN WHITE ELSE BLACK,
                                                     fen_to_class(char))
                                               EXCEPT !.file = st.file, !.rank = st.rank]),
                    !.w.board[PyIndex(st.rank)][PyIndex(st.file)] = Len(st.w.pieces) + 1]

\* the loop state after the first n characters; file, rank = 0, 7
RECURSIVE LoadLoop(_, _, _)
LoadLoop(w, fen, n) ==
    IF n = 0 THEN [raised |-> FALSE, w |-> w, file |-> 0, rank |-> N - 1]
    ELSE LoadStep(LoadLoop(w, fen, n - 1), fen[n])

load_fen(w, fen) == LoadLoop(w, fen, Len(fen))

\* Board.find_king: the first king of the colour in the scan rank 0..7,
\* file 0..7, or None
find_king(w, colour) ==
    LET IsKing(i) ==
            LET piece == get_piece(w, i % N, i \div N)
            IN  /\ piece # None
                /\ w.pieces[piece].colour = colour
                /\ w.pieces[piece].piece_type = KING
        found == {i \in 0..(N * N - 1) : IsKing(i)}
    IN  IF found = {} THEN None
        ELSE LET first == CHOOSE i \in found : \A j \in found : i <= j
             IN  get_piece(w, first % N, first \div N)

RECURSIVE ParseInt(_, _, _)
ParseInt(chars, i, acc) ==
    IF i > Len(chars) THEN acc
    ELSE ParseInt(chars, i + 1, acc * 10 + int(chars[i]))

\* int(text) does not raise ValueError: text is a non-empty run of digits
IsNumber(chars) == Len(chars) > 0 /\ \A i \in 1..Len(chars) : isdigit(chars[i])

\* the number of fields Board.parse_fen indexes, parts[0] .. parts[5]
FenFields == 6

EmptyWorld ==
    [board |-> [r \in Ranks |-> [f \in Files |-> None]],
     pieces |-> <<>>, white_king |-> None, black_king |-> None]

\* active_colour = None of Board.__init__
Unset == "NONE"

\* no Board object: the constructor has not been called or has raised
NoGame == [w |-> EmptyWorld, active_colour |-> Unset, halfmove_clock |-> 0,
           fullmove_number |-> 0, game_active |-> FALSE]

\* Board.__init__ and Board.parse_fen: parts is the encoding split into its
\* fields; the placement and the two counters are sequences of characters
\* load_fen(parts[0]) raises KeyError or IndexError, parts[1] .. parts[5]
\* raise IndexError when the field is missing, int() raises ValueError;
\* the exception leaves Board.__init__ and no Board object is produced
parse_fen(parts) ==
    LET l == load_fen(EmptyWorld, parts[1])
    IN  IF l.raised \/ Len(parts) < FenFields
        THEN [raised |-> TRUE, g |-> NoGame]
        ELSE IF ~IsNumber(parts[5]) \/ ~IsNumber(parts[6])
        THEN [raised |-> TRUE, g |-> NoGame]
        ELSE
        [raised |-> FALSE,
         g |-> [w |-> [l.w EXCEPT !.white_king = find_king(l.w, WHITE),
                                  !.black_king = find_king(l.w, BLACK)],
                active_colour |-> IF parts[2] = "w" THEN WHITE ELSE BLACK,
                halfmove_clock |-> ParseInt(parts[5], 1, 0),
                fullmove_number |-> ParseInt(parts[6], 1, 0),
                game_active |-> TRUE]]

\* --------------------------------------------------------------- the state
VARIABLES board, pieces, white_king, black_king,
          active_colour, halfmove_clock, fullmove_number, game_active,
          fen, selected_piece, destination_square, promotion_pending,
          updates, ply, last

vars == <<board, pieces, white_king, black_king,
          active_colour, halfmove_clock, fullmove_number, game_active,
          fen, selected_piece, destination_square, promotion_pending,
          updates, ply, last>>

\* destination_square = None
NoSquare == <<>>

\* the BoardView attributes set by BoardView.__init__
view == <<selected_piece, destination_square, promotion_pending>>

InitView ==
    /\ selected_piece = None
    /\ destination_square = NoSquare
    /\ promotion_pending = FALSE

\* the Board object as a World and as a Game
World == [board |-> board, pieces |-> pieces,
          white_king |-> white_king, black_king |-> black_king]

Game == [w |-> World, active_colour |-> active_colour,
         halfmove_clock |-> halfmove_clock, fullmove_number |-> fullmove_number,
         game_active |-> game_active]

\* the encodings a Board is constructed from, split into their six fields
Fens == {
    \* 8/8/8/3k4/8/3K4/8/8 w - - 0 1  (two bare kings two ranks apart)
    << <<"8", "/", "8", "/", "8", "/", "3", "k", "4", "/", "8", "/", "3", "K", "4", "/", "8", "/", "8">>,
       "w", "-", "-", <<"0">>, <<"1">> >>,
    \* 7k/8/8/8/8/8/8/KN6 w - - 99 60  (one move short of the 50-move rule)
    << <<"7", "k", "/", "8", "/", "8", "/", "8", "/", "8", "/", "8", "/", "8", "/", "K", "N", "6">>,
       "w", "-", "-", <<"9", "9">>, <<"6", "0">> >>,
    \* 6rk/6pp/8/6N1/8/8/8/K7 w - - 0 1  (a knight move away from a smothered mate)
    << <<"6", "r", "k", "/", "6", "p", "p", "/", "8", "/", "6", "N", "1", "/", "8", "/", "8", "/", "8", "/", "K", "7">>,
       "w", "-", "-", <<"0">>, <<"1">> >>,
    \* 7k/8/8/6Q1/8/8/8/K7 w - - 0 1  (a queen move away from stalemate)
    << <<"7", "k", "/", "8", "/", "8", "/", "6", "Q", "1", "/", "8", "/", "8", "/", "8", "/", "K", "7">>,
       "w", "-", "-", <<"0">>, <<"1">> >>,
    \* 8/8/8/8/8/7k/p7/7K b - - 0 1  (a black pawn one step from its last rank)
    << <<"8", "/", "8", "/", "8", "/", "8", "/", "8", "/", "7", "k", "/", "p", "7", "/", "7", "K">>,
       "b", "-", "-", <<"0">>, <<"1">> >>,
    \* 8/K6P/8/8/8/8/8/7k b - - 0 1  (a white king and a white pawn next to rank 7)
    << <<"8", "/", "K", "6", "P", "/", "8", "/", "8", "/", "8", "/", "8", "/", "8", "/", "7", "k">>,
       "b", "-", "-", <<"0">>, <<"1">> >>,
    \* 3qkb2/1np5/1r1N4/8/8/8/8/K7 b - - 0 1  (the black king checked by a knight that a
    \* black piece of each kind but the king can take)
    << <<"3", "q", "k", "b", "2", "/", "1", "n", "p", "5", "/", "1", "r", "1", "N", "4", "/", "8", "/", "8", "/", "8", "/", "8", "/", "K", "7">>,
       "b", "-", "-", <<"0">>, <<"1">> >>
    }

NoOp == [op |-> "init", piece |-> None, piece_type |-> "NONE", origin |-> <<0, 0>>,
         destination |-> <<0, 0>>, captured_piece |-> None, raised |-> FALSE]

Init ==
    \E parts \in Fens :
        LET c == parse_fen(parts)
        IN  /\ ~c.raised
            /\ board = c.g.w.board
            /\ pieces = c.g.w.pieces
            /\ white_king = c.g.w.white_king
            /\ black_king = c.g.w.black_king
            /\ active_colour = c.g.active_colour
            /\ halfmove_clock = c.g.halfmove_clock
            /\ fullmove_number = c.g.fullmove_number
            /\ game_active = c.g.game_active
            /\ fen = parts
            /\ InitView
            /\ updates = 0
            /\ ply = 0
            /\ last = NoOp

\* the pieces standing on the grid
OnGrid(w) == {w.board[r][f] : r \in Ranks, f \in Files} \ {None}

Range(seq) == {seq[i] : i \in 1..Len(seq)}

SetGameNow(g) ==
    /\ board = g.w.board
    /\ pieces = g.w.pieces
    /\ white_king = g.w.white_king
    /\ black_king = g.w.black_king
    /\ active_colour = g.active_colour
    /\ halfmove_clock = g.halfmove_clock
    /\ fullmove_number = g.fullmove_number
    /\ game_active = g.game_active

SetGame(g) ==
    /\ board' = g.w.board
    /\ pieces' = g.w.pieces
    /\ white_king' = g.w.white_king
    /\ black_king' = g.w.black_king
    /\ active_colour' = g.active_colour
    /\ halfmove_clock' = g.halfmove_clock
    /\ fullmove_number' = g.fullmove_number
    /\ game_active' = g.game_active

\* the last rank test of BoardView.handle_second_click
Promotes(w, self, destination) ==
    w.pieces[self].piece_type = PAWN /\ (destination[2] = 0 \/ destination[2] = N - 1)

PromotionKinds == {QUEEN, ROOK, BISHOP, KNIGHT}

\* A completed move: the caller takes a piece of the active colour from the
\* grid, asks it for its moves, applies one of them with move_piece and calls
\* update_game_state.  (\E over a singleton binds a value computed once.)
Move(self) ==
    /\ ply < MaxPly
    /\ pieces[self].colour = active_colour
    /\ \E gen \in {generate_moves(World, self)} :
       /\ ~gen.raised
       /\ \E destination \in Range(gen.moves) :
          /\ ~Promotes(gen.w, self, destination)
          /\ \E m \in {move_piece(gen.w, self, destination)} :
             \E u \in {update_game_state([Game EXCEPT !.w = m.w])} :
                /\ SetGame(u.g)
                /\ last' = [op |-> "move", piece |-> self,
                            piece_type |-> pieces[self].piece_type,
                            origin |-> get_position(World, self),
                            destination |-> destination,
                            captured_piece |-> m.captured_piece,
                            raised |-> u.raised]
    /\ updates' = updates + 1
    /\ ply' = ply + 1
    /\ UNCHANGED <<fen, view>>

\* the piece object constructed for a promotion is appended to pieces
Constructed(w, colour, kind) == [w EXCEPT !.pieces = Append(@, NewPiece(colour, kind))]

\* A completed promoting move: move_piece of a pawn onto rank 0 or 7,
\* promote_pawn with a newly constructed piece, update_game_state.
MovePromote(self, kind) ==
    /\ ply < MaxPly
    /\ pieces[self].colour = active_colour
    /\ pieces[self].piece_type = PAWN
    /\ \E gen \in {generate_moves(World, self)} :
       /\ ~gen.raised
       /\ \E destination \in Range(gen.moves) :
          /\ Promotes(gen.w, self, destination)
          /\ \E m \in {move_piece(gen.w, self, destination)} :
             \E p \in {promote_pawn(Constructed(m.w, pieces[self].colour, kind),
                                    self, Len(pieces) + 1, destination)} :
             \E u \in {update_game_state([Game EXCEPT !.w = p])} :
                /\ SetGame(u.g)
                /\ last' = [op |-> "promote", piece |-> self,
                            piece_type |-> pieces[self].piece_type,
                            origin |-> get_position(World, self),
                            destination |-> destination,
                            captured_piece |-> m.captured_piece,
                            raised |-> u.raised]
    /\ updates' = updates + 1
    /\ ply' = ply + 1
    /\ UNCHANGED <<fen, view>>

\* generate_moves raises: the caller gets the exception and the Board stays
\* as the interrupted call left it.
GenerateRaises(self) ==
    /\ ply < MaxPly
    /\ pieces[self].colour = active_colour
    /\ \E gen \in {generate_moves(World, self)} :
       /\ gen.raised
       /\ SetGame([Game EXCEPT !.w = gen.w])
       /\ last' = [NoOp EXCEPT !.op = "generate", !.piece = self,
                               !.piece_type = pieces[self].piece_type,
                               !.origin = get_position(World, self),
                               !.raised = TRUE]
    /\ ply' = ply + 1
    /\ UNCHANGED <<fen, view, updates>>

Next ==
    \/ \E self \in OnGrid(World) : Move(self)
    \/ \E self \in OnGrid(World), kind \in PromotionKinds : MovePromote(self, kind)
    \/ \E self \in OnGrid(World) : GenerateRaises(self)

Spec == Init /\ [][Next]_vars

\* ------------------------------------------------------ constructing a Board
\* The rank segments the placements are assembled from, as sequences of
\* characters.  Rank 7 (first segment): 4k3, rnbqkbnr, K3k3, 8, 4k2 (seven
\* files), 4x3 (an unrecognised letter), ppppkpppp (nine pieces), R3k3.
TopSegments == {
    <<"4", "k", "3">>,
    <<"r", "n", "b", "q", "k", "b", "n", "r">>,
    <<"K", "3", "k", "3">>,
    <<"8">>,
    <<"4", "k", "2">>,
    <<"4", "x", "3">>,
    <<"p", "p", "p", "p", "k", "p", "p", "p", "p">>,
    <<"R", "3", "k", "3">>}

\* rank 6: 8, pppppppp, 3P4
SecondSegments == {
    <<"8">>,
    <<"p", "p", "p", "p", "p", "p", "p", "p">>,
    <<"3", "P", "4">>}

\* rank 1: 8, PPPPPPPP
SeventhSegments == {
    <<"8">>,
    <<"P", "P", "P", "P", "P", "P", "P", "P">>}

\* rank 0: 4K3, RNBQKBNR, 8
BottomSegments == {
    <<"4", "K", "3">>,
    <<"R", "N", "B", "Q", "K", "B", "N", "R">>,
    <<"8">>}

EmptySegment == <<"8">>
Slash == <<"/">>

\* top/second/8/8/8/8/seventh/bottom
Placement(top, second, seventh, bottom) ==
    top \o Slash \o second \o Slash \o EmptySegment \o Slash \o EmptySegment
        \o Slash \o EmptySegment \o Slash \o EmptySegment
        \o Slash \o seventh \o Slash \o bottom

\* rnbqkbnr/pppppppp/8/8/8/8/PPPPPPPP/RNBQKBNR w KQkq - 0 1, the default of
\* Board.__init__
DefaultFen ==
    << Placement(<<"r", "n", "b", "q", "k", "b", "n", "r">>, <<"p", "p", "p", "p", "p", "p", "p", "p">>,
                 <<"P", "P", "P", "P", "P", "P", "P", "P">>, <<"R", "N", "B", "Q", "K", "B", "N", "R">>),
       "w", "KQkq", "-", <<"0">>, <<"1">> >>

\* the first k fields of an encoding (fen.split() of a shorter text)
FirstFields(parts, k) == SubSeq(parts, 1, k)

\* the encodings given to Board(fen)
Encodings ==
    {<< Placement(top, second, seventh, bottom), "w", "-", "-", <<"0">>, <<"1">> >> :
        top \in TopSegments, second \in SecondSegments,
        seventh \in SeventhSegments, bottom \in BottomSegments}
    \cup {DefaultFen,
          [DefaultFen EXCEPT ![2] = "b", ![4] = "e3", ![5] = <<"1", "2">>, ![6] = <<"3", "4">>],
          [DefaultFen EXCEPT ![5] = <<"-">>]}
    \cup {FirstFields(DefaultFen, k) : k \in 1..(FenFields - 1)}

\* before Board(fen) is called
Start == [NoOp EXCEPT !.op = "start"]

InitLoad ==
    /\ SetGameNow(NoGame)
    /\ fen = <<>>
    /\ InitView
    /\ updates = 0
    /\ ply = 0
    /\ last = Start

\* Board(fen): Board.__init__ with Board.parse_fen; when it raises no Board
\* object is produced
Board_init(parts) ==
    /\ last.op = "start"
    /\ \E c \in {parse_fen(parts)} :
           /\ SetGame(c.g)
           /\ last' = [NoOp EXCEPT !.op = "load", !.raised = c.raised]
    /\ fen' = parts
    /\ ply' = ply + 1
    /\ UNCHANGED <<view, updates>>

NextLoad == \E parts \in Encodings : Board_init(parts)

LoadSpec == InitLoad /\ [][NextLoad]_vars

\* --------------------------------------------------------------- BoardView
\* The view with its Board is [g, selected_piece, destination_square,
\* promotion_pending, updates, raised]: updates counts the calls of
\* Board.update_game_state, raised tells that the handler was left by an
\* exception (tkinter reports it and the attributes stay as they are).

MaxClicks == 3

\* class Piece and its subclasses define no method get_type
get_type_defined == FALSE

ViewNow ==
    [g |-> Game, selected_piece |-> selected_piece,
     destination_square |-> destination_square,
     promotion_pending |-> promotion_pending, updates |-> updates, raised |-> FALSE]

Raise(v) == [v EXCEPT !.raised = TRUE]

SelectedColour(v) == v.g.w.pieces[v.selected_piece].colour

\* moves = clicked_piece.generate_moves(self.board)
FirstGenerated(v, gen) == [v EXCEPT !.g.w = gen.w, !.raised = gen.raised]

handle_first_click_any_colour(v, clicked_piece) ==
    IF clicked_piece # None
    THEN FirstGenerated([v EXCEPT !.selected_piece = clicked_piece],
                        generate_moves(v.g.w, clicked_piece))
    ELSE v

\* BoardView.handle_first_click
handle_first_click(v, clicked_piece) ==
    IF clicked_piece # None /\ v.g.w.pieces[clicked_piece].colour = v.g.active_colour
    THEN FirstGenerated([v EXCEPT !.selected_piece = clicked_piece],
                        generate_moves(v.g.w, clicked_piece))
    ELSE v

\* chk is is_king_in_check(king) of line 280
DeselectChecked(v, chk) ==
    IF chk.raised THEN Raise(v)
    ELSE [v EXCEPT !.selected_piece = None, !.destination_square = NoSquare]

\* BoardView.deselect_piece: king is self.board.black_king for either colour
deselect_piece(v) == DeselectChecked(v, in_check(v.g.w, v.g.w.black_king))

\* highlight_king_if_in_check(own_king): king.file and king.in_check
ViewOwnKing(v, own_king) ==
    IF in_check(v.g.w, own_king).raised THEN Raise(v) ELSE v

\* mate is self.board.is_king_in_checkmate(king) of BoardView.is_king_in_checkmate
ViewMateScanned(v, own_king, mate) ==
    IF mate.raised THEN Raise([v EXCEPT !.g.w = mate.w])
    ELSE ViewOwnKing([v EXCEPT !.g.w = mate.w,
                               !.g.game_active = IF mate.value THEN FALSE ELSE @],
                     own_king)

\* chk is is_king_in_check(opp_king) of line 380
ViewOppChecked(v, opp_king, own_king, chk) ==
    IF chk.raised THEN Raise(v)
    ELSE IF chk.value
    THEN ViewMateScanned(v, own_king, is_king_in_checkmate(v.g.w, opp_king))
    ELSE ViewOwnKing(v, own_king)

\* BoardView.update_board_view
update_board_view(v) ==
    ViewOppChecked(v,
        IF SelectedColour(v) = BLACK THEN v.g.w.white_king ELSE v.g.w.black_king,
        IF SelectedColour(v) = BLACK THEN v.g.w.black_king ELSE v.g.w.white_king,
        in_check(v.g.w, IF SelectedColour(v) = BLACK THEN v.g.w.white_king
                                                     ELSE v.g.w.black_king))

\* m is self.board.move_piece(self.selected_piece, self.destination_square)
ViewMoved(v, m) == update_board_view([v EXCEPT !.g.w = m.w])

\* BoardView.move_selected_piece
move_selected_piece(v, file, rank) ==
    ViewMoved([v EXCEPT !.destination_square = <<file, rank>>],
              move_piece(v.g.w, v.selected_piece, <<file, rank>>))

\* u is self.board.update_game_state()
ViewUpdated(v, u) == [v EXCEPT !.g = u.g, !.raised = u.raised, !.updates = @ + 1]

\* lines 215-222 of BoardView.handle_second_click
SecondMoved(v, rank) ==
    IF v.raised THEN v
    ELSE IF ~get_type_defined THEN Raise(v)
    ELSE IF Promotes(v.g.w, v.selected_piece, <<v.destination_square[1], rank>>)
    THEN [v EXCEPT !.promotion_pending = TRUE]
    ELSE ViewUpdated([v EXCEPT !.selected_piece = None, !.destination_square = NoSquare],
                     update_game_state(v.g))

\* (file, rank) in self.selected_piece.moves
InMoves(v, file, rank) == <<file, rank>> \in Range(v.g.w.pieces[v.selected_piece].moves)

\* BoardView.handle_second_click
handle_second_click(v, file, rank) ==
    IF ~InMoves(v, file, rank) THEN deselect_piece(v)
    ELSE SecondMoved(move_selected_piece(v, file, rank), rank)

\* Queen on rank 0 or 7, Rook on 1 or 6, Bishop on 2 or 5, Knight on 3 or 4
PromotionPiece(rank) ==
    IF rank = 0 \/ rank = 7 THEN QUEEN
    ELSE IF rank = 1 \/ rank = 6 THEN ROOK
    ELSE IF rank = 2 \/ rank = 5 THEN BISHOP
    ELSE KNIGHT

\* lines 264-267: v after update_board_view
PromotionViewed(v) ==
    IF v.raised THEN v
    ELSE ViewUpdated([v EXCEPT !.promotion_pending = FALSE, !.selected_piece = None],
                     update_game_state(v.g))

\* line 262: self.selected_piece = self.board.promote_pawn(...)
PromotionChosen(v, w) ==
    PromotionViewed(update_board_view([v EXCEPT !.g.w = w, !.selected_piece = Len(w.pieces)]))

\* BoardView.handle_promotion_click
handle_promotion_click(v, file, rank) ==
    IF ~v.promotion_pending \/ file # v.destination_square[1] THEN v
    ELSE IF SelectedColour(v) = WHITE /\ rank \notin {4, 5, 6, 7} THEN v
    ELSE IF SelectedColour(v) = BLACK /\ rank \notin {0, 1, 2, 3} THEN v
    ELSE PromotionChosen(v,
             promote_pawn(Constructed(v.g.w, SelectedColour(v), PromotionPiece(rank)),
                          v.selected_piece, Len(v.g.w.pieces) + 1, v.destination_square))

\* BoardView.on_click after get_clicked_square
OnClick(v, file, rank) ==
    IF ~v.g.game_active THEN v
    ELSE IF v.promotion_pending THEN handle_promotion_click(v, file, rank)
    ELSE IF v.selected_piece = None THEN handle_first_click(v, get_piece(v.g.w, file, rank))
    ELSE handle_second_click(v, file, rank)

\* the branch of on_click a click on (file, rank) takes
Branch(v, file, rank) ==
    IF ~v.g.game_active THEN "ignored"
    ELSE IF v.promotion_pending THEN "promotion"
    ELSE IF v.selected_piece = None THEN "first"
    ELSE IF InMoves(v, file, rank) THEN "second"
    ELSE "deselect"

\* the piece a click is about: the selected piece, else the clicked one
Subject(v, file, rank) ==
    IF v.selected_piece # None THEN v.selected_piece ELSE get_piece(v.g.w, file, rank)

Clicked(v, file, rank, after) ==
    LET piece == Subject(v, file, rank)
    IN  [op |-> Branch(v, file, rank), piece |-> piece,
         piece_type |-> IF piece = None THEN "NONE" ELSE v.g.w.pieces[piece].piece_type,
         origin |-> IF piece = None THEN <<0, 0>> ELSE get_position(v.g.w, piece),
         destination |-> <<file, rank>>, captured_piece |-> None,
         raised |-> after.raised]

\* the handler bound to <Button-1>: one click on the square (file, rank)
on_click(file, rank) ==
    /\ ply < MaxClicks
    /\ \E v \in {OnClick(ViewNow, file, rank)} :
           /\ SetGame(v.g)
           /\ selected_piece' = v.selected_piece
           /\ destination_square' = v.destination_square
           /\ promotion_pending' = v.promotion_pending
           /\ updates' = v.updates
           /\ last' = Clicked(ViewNow, file, rank, v)
    /\ ply' = ply + 1
    /\ UNCHANGED fen

\* the boards a BoardView is opened on
GuiFens == {
    DefaultFen,
    \* 8/8/8/8/8/7k/p7/7K b - - 0 1  (a black pawn one step from rank 0)
    << <<"8", "/", "8", "/", "8", "/", "8", "/", "8", "/", "7", "k", "/", "p", "7", "/", "7", "K">>,
       "b", "-", "-", <<"0">>, <<"1">> >>,
    \* nr1k4/P7/8/8/8/8/8/K7 w - - 0 1  (a white pawn that takes onto rank 7)
    << <<"n", "r", "1", "k", "4", "/", "P", "7", "/", "8", "/", "8", "/", "8", "/", "8", "/", "8", "/", "K", "7">>,
       "w", "-", "-", <<"0">>, <<"1">> >>,
    \* 6rk/6pp/8/6N1/8/8/8/K7 w - - 0 1  (the knight mates on (5, 6))
    << <<"6", "r", "k", "/", "6", "p", "p", "/", "8", "/", "6", "N", "1", "/", "8", "/", "8", "/", "8", "/", "K", "7">>,
       "w", "-", "-", <<"0">>, <<"1">> >>
    }

\* BoardView.__init__ on a constructed Board
InitGui ==
    \E parts \in GuiFens :
        \E c \in {parse_fen(parts)} :
            /\ ~c.raised
            /\ SetGameNow(c.g)
            /\ fen = parts
            /\ InitView
            /\ updates = 0
            /\ ply = 0
            /\ last = NoOp

NextGui == \E file \in Files, rank \in Ranks : on_click(file, rank)

GuiSpec == InitGui /\ [][NextGui]_vars

\* ================================================================= claims
\* the pseudo-legal list of a piece before filtering, by its class
Candidates(w, self) ==
    CASE w.pieces[self].piece_type = PAWN -> PawnCandidates(w, self)
      [] w.pieces[self].piece_type = KNIGHT ->
             [raised |-> FALSE, moves |-> KnightCandidates(w, self)]
      [] w.pieces[self].piece_type = BISHOP ->
             [raised |-> FALSE, moves |-> SliderCandidates(w, self, BishopDirs)]
      [] w.pieces[self].piece_type = ROOK ->
             [raised |-> FALSE, moves |-> SliderCandidates(w, self, RookDirs)]
      [] w.pieces[self].piece_type = QUEEN ->
             [raised |-> FALSE, moves |-> SliderCandidates(w, self, RookDirs)
                                            \o SliderCandidates(w, self, BishopDirs)]
      [] w.pieces[self].piece_type = KING ->
             [raised |-> FALSE, moves |-> KingCandidates(w, self)]

BothKingsOnGrid(w) ==
    /\ w.white_king \in OnGrid(w)
    /\ w.black_king \in OnGrid(w)

\* in_check returns False for the king of self's colour once self stands on
\* destination
SafeAfter(w, self, destination) ==
    \A m \in {move_piece(w, self, destination)} :
        \A chk \in {in_check(m.w, OwnKing(m.w, self))} :
            ~chk.raised /\ ~chk.value

Attacked(w, king) ==
    \E chk \in {in_check(w, king)} : ~chk.raised /\ chk.value

\* every piece of the colour on the grid returns an empty list
NoLegalMove(w, colour) ==
    \A self \in OnGrid(w) :
        w.pieces[self].colour = colour =>
            \A gen \in {generate_moves(w, self)} : ~gen.raised /\ gen.moves = <<>>

CompletedMove(l) == l.op \in {"move", "promote"}

\* C1 -- self-check invariant: with both kings on the grid, no destination
\* returned by generate_moves for a piece on the grid, of either colour,
\* leaves the king of that piece's colour attacked once move_piece has
\* applied it.
C1_NoSelfCheck ==
    BothKingsOnGrid(World) =>
        \A self \in OnGrid(World) :
            \A gen \in {generate_moves(World, self)} :
                ~gen.raised =>
                    \A i \in 1..Len(gen.moves) : SafeAfter(gen.w, self, gen.moves[i])

\* C1 witness: after a completed move, with both kings on the grid and the
\* own king not attacked, a piece keeps some of its candidates and loses
\* others to the filter.
C1_Witness ==
    /\ CompletedMove(last)
    /\ BothKingsOnGrid(World)
    /\ \E self \in OnGrid(World) :
           \E gen \in {generate_moves(World, self)} :
               /\ ~gen.raised
               /\ ~Attacked(World, OwnKing(World, self))
               /\ gen.moves # <<>>
               /\ Len(gen.moves) < Len(Candidates(World, self).moves)

\* C2 -- check-escape invariant: when the king of a colour is attacked, every
\* destination returned by generate_moves for a piece of that colour, of any
\* kind, gives after move_piece a position where that king is not attacked.
C2_CheckEscape ==
    \A self \in OnGrid(World) :
        Attacked(World, OwnKing(World, self)) =>
            \A gen \in {generate_moves(World, self)} :
                ~gen.raised =>
                    \A i \in 1..Len(gen.moves) : SafeAfter(gen.w, self, gen.moves[i])

\* C2 witness: the king of the active colour is attacked and that colour has
\* a piece of each of the six kinds that returns some destination and has
\* a candidate that is not returned.
C2_Witness ==
    /\ Attacked(World, OwnKing(World, IF active_colour = WHITE THEN white_king ELSE black_king))
    /\ \A kind \in {PAWN, KNIGHT, BISHOP, ROOK, QUEEN, KING} :
           \E self \in OnGrid(World) :
               /\ pieces[self].colour = active_colour
               /\ pieces[self].piece_type = kind
               /\ \E gen \in {generate_moves(World, self)} :
                      /\ ~gen.raised
                      /\ gen.moves # <<>>
               /\ Len(generate_moves(World, self).moves)
                      < Len(Candidates(World, self).moves)

KingsOf(w, colour) ==
    {self \in OnGrid(w) : w.pieces[self].colour = colour /\ w.pieces[self].piece_type = KING}

\* C3 -- in every position reached by completed moves from a loaded position
\* with one king per side, exactly one king of each colour stands on the
\* grid, and white_king / black_king refer to them.
C3_OneKingEach ==
    /\ KingsOf(World, WHITE) = {white_king}
    /\ KingsOf(World, BLACK) = {black_king}

\* C4 -- every completed move that is a pawn move or a capture resets
\* halfmove_clock to 0, every other completed move increases it by 1.
C4_HalfmoveClock ==
    [][CompletedMove(last') =>
          halfmove_clock' = IF last'.piece_type = PAWN \/ last'.captured_piece # None
                            THEN 0 ELSE halfmove_clock + 1]_vars

\* C5 -- terminal is absorbing: once game_active is false no operation
\* changes the grid, active_colour, halfmove_clock or fullmove_number, and
\* game_active stays false.
C5_TerminalAbsorbing ==
    [][~game_active =>
          /\ board' = board
          /\ active_colour' = active_colour
          /\ halfmove_clock' = halfmove_clock
          /\ fullmove_number' = fullmove_number
          /\ ~game_active']_vars

ActiveKing == IF active_colour = WHITE THEN white_king ELSE black_king

\* C7 -- for the king K of the active colour with no legal move for its
\* side: if K is attacked then is_king_in_checkmate(K) is true; if K is not
\* attacked then is_stalemate() is true and is_king_in_checkmate(K) is false.
C7_CheckmateVersusStalemate ==
    (/\ ActiveKing \in OnGrid(World)
     /\ NoLegalMove(World, active_colour)) =>
        \A cm \in {is_king_in_checkmate(World, ActiveKing)} :
            \A st \in {is_stalemate(World, active_colour)} :
                IF Attacked(World, ActiveKing)
                THEN ~cm.raised /\ cm.value
                ELSE ~st.raised /\ st.value /\ ~cm.raised /\ ~cm.value

\* C8 -- move/undo round trip: for a piece at s and a destination d returned
\* by generate_moves, c = move_piece(P, d) followed by undo_move(P, s, c)
\* puts P back on s with recorded position s, puts the previous occupant of
\* d (or nothing) back on d and leaves every other square as it was.
C8_MoveUndoRoundTrip ==
    \A self \in OnGrid(World) :
        \A gen \in {generate_moves(World, self)} :
            ~gen.raised =>
                \A i \in 1..Len(gen.moves) :
                    \A s \in {get_position(gen.w, self)} :
                        \A m \in {move_piece(gen.w, self, gen.moves[i])} :
                            \A back \in {undo_move(m.w, self, s, m.captured_piece)} :
                                /\ back.board = gen.w.board
                                /\ get_position(back, self) = s
                                /\ get_piece(back, s[1], s[2]) = self
                                /\ get_piece(back, gen.moves[i][1], gen.moves[i][2])
                                       = m.captured_piece

\* C8 witness: after a completed move a returned destination holds a piece,
\* so that move_piece returns a captured piece which undo_move has to put
\* back.
C8_Witness ==
    CompletedMove(last) /\ \E self \in OnGrid(World) :
        \E gen \in {generate_moves(World, self)} :
            /\ ~gen.raised
            /\ \E i \in 1..Len(gen.moves) :
                   get_piece(World, gen.moves[i][1], gen.moves[i][2]) # None

Cell(square) == <<PyIndex(square[1]), PyIndex(square[2])>>

\* C9 -- no self-capture: every destination returned by generate_moves is,
\* in the current position, empty or occupied by a piece of the opposite
\* colour, and is not the square of the mover.
C9_NoSelfCapture ==
    \A self \in OnGrid(World) :
        \A gen \in {generate_moves(World, self)} :
            ~gen.raised =>
                \A i \in 1..Len(gen.moves) :
                    /\ FreeOrOpposing(World, self, gen.moves[i][1], gen.moves[i][2])
                    /\ Cell(gen.moves[i]) # Cell(get_position(World, self))

\* C9 witness: after a completed move a knight that returns some destination
\* has a piece of its own colour on one of its eight offsets.
C9_Witness ==
    CompletedMove(last) /\ \E self \in OnGrid(World) :
        /\ pieces[self].piece_type = KNIGHT
        /\ generate_moves(World, self).moves # <<>>
        /\ \E i \in 1..8 :
               /\ OnBoard(pieces[self].file + KnightOffsets[i][1],
                          pieces[self].rank + KnightOffsets[i][2])
               /\ ~FreeOrOpposing(World, self, pieces[self].file + KnightOffsets[i][1],
                                  pieces[self].rank + KnightOffsets[i][2])

\* C10 -- each call of update_game_state flips active_colour, and
\* fullmove_number increases by 1 exactly when the turn passes to White.
C10_TurnAlternates ==
    [][CompletedMove(last') =>
          /\ active_colour' = Other(active_colour)
          /\ fullmove_number' = IF active_colour' = WHITE
                                THEN fullmove_number + 1 ELSE fullmove_number]_vars

\* C10 witness: a second completed move, made by Black, has passed the turn
\* back to White.
C10_Witness ==
    /\ CompletedMove(last)
    /\ ply = 2
    /\ pieces[last.piece].colour = BLACK
    /\ active_colour = WHITE

\* the rank a pawn of the colour starts on
StartRank(colour) == IF colour = WHITE THEN 1 ELSE N - 2

\* the pawn rule: one step forward if empty, two steps from the starting
\* rank if both squares are empty, a diagonal step forward onto an opposing
\* piece
PawnRule(w, self) ==
    LET file == w.pieces[self].file
        rank == w.pieces[self].rank
        direction == Direction(Colour(w, self))
        Empty(x, y) == OnBoard(x, y) /\ get_piece(w, x, y) = None
    IN  {<<file, rank + direction>> : x \in {0} \cap {k \in {0} : Empty(file, rank + direction)}}
        \cup {<<file, rank + 2 * direction>> :
                  x \in {k \in {0} : /\ rank = StartRank(Colour(w, self))
                                      /\ Empty(file, rank + direction)
                                      /\ Empty(file, rank + 2 * direction)}}
        \cup {<<file + attack, rank + direction>> :
                  attack \in {a \in {-1, 1} :
                                 /\ OnBoard(file + a, rank + direction)
                                 /\ Opposing(w, self, file + a, rank + direction)}}

PawnsOf(w) == {self \in OnGrid(w) : w.pieces[self].piece_type = PAWN}

\* C11 -- pawn pseudo-legal generation: for every pawn on the grid the list
\* built before filtering is built without an error and holds exactly the
\* squares of the pawn rule (one step if empty, two steps only from the own
\* starting rank with both squares empty, diagonal steps only onto opposing
\* pieces).
C11_PawnPseudoLegal ==
    \A self \in PawnsOf(World) :
        \A cand \in {PawnCandidates(World, self)} :
            /\ ~cand.raised
            /\ Range(cand.moves) = PawnRule(World, self)

\* the destinations the rules of the kind of self allow: its candidate
\* squares, in the order of the list, that do not leave its king attacked
LegalByKind(w, self) ==
    LET Safe(d) == SafeAfter(w, self, d)
    IN  SelectSeq(Candidates(w, self).moves, Safe)

\* promote_pawn for the pawn self standing on square d in world w, with a
\* newly constructed piece of the kind
Promoted(w, self, d, kind) ==
    promote_pawn(Constructed(w, w.pieces[self].colour, kind), self, Len(w.pieces) + 1, d)

PromotionDone(before, self, d, kind, after) ==
    \A new \in {Len(before.pieces) + 1} :
        /\ self \notin OnGrid(after)
        /\ get_piece(after, d[1], d[2]) = new
        /\ get_position(after, new) = d
        /\ after.board = [before.board EXCEPT ![d[2]][d[1]] = new]
        /\ after.pieces[new].piece_type = kind
        /\ \A gen \in {generate_moves(after, new)} :
               ~gen.raised /\ gen.moves = LegalByKind(after, new)

\* C13 -- promote_pawn: for a pawn that move_piece has put on a returned
\* destination on rank 0 or 7 and every kind of Queen, Rook, Bishop, Knight,
\* promote_pawn leaves the pawn on no square, the new piece on that square
\* with that recorded position and every other square unchanged, and the new
\* piece's generate_moves returns the legal destinations of its kind.
C13_PromotePawn ==
    \A self \in PawnsOf(World) :
        \A gen \in {generate_moves(World, self)} :
            ~gen.raised =>
                \A i \in 1..Len(gen.moves) :
                    Promotes(gen.w, self, gen.moves[i]) =>
                        \A m \in {move_piece(gen.w, self, gen.moves[i])} :
                            \A kind \in PromotionKinds :
                                PromotionDone(m.w, self, gen.moves[i], kind,
                                              Promoted(m.w, self, gen.moves[i], kind))

\* C13 witness: a promoting move has been completed; the piece constructed
\* for it stands on the destination, is of a promotion kind and returns
\* some destination.
C13_Witness ==
    /\ last.op = "promote"
    /\ get_piece(World, last.destination[1], last.destination[2]) = Len(pieces)
    /\ pieces[Len(pieces)].piece_type \in PromotionKinds
    /\ generate_moves(World, Len(pieces)).moves # <<>>

\* C18 -- for every piece on the grid generate_moves completes without an
\* out-of-range access and every returned square has file and rank in 0..7.
C18_MovesOnBoard ==
    \A self \in OnGrid(World) :
        \A gen \in {generate_moves(World, self)} :
            /\ ~gen.raised
            /\ \A i \in 1..Len(gen.moves) : OnBoard(gen.moves[i][1], gen.moves[i][2])

\* the recorded file and rank of every piece object
Recorded(w) == [self \in 1..Len(w.pieces) |-> get_position(w, self)]

\* C19 -- generate_moves leaves the position unchanged on every exit path:
\* whether it returns or an attack test fails during a simulation, the grid
\* and the recorded position of every piece are those before the call.
C19_GenerateMovesFrame ==
    \A self \in OnGrid(World) :
        \A gen \in {generate_moves(World, self)} :
            /\ gen.w.board = World.board
            /\ Recorded(gen.w) = Recorded(World)

\* ------------------------------------------- reading an encoding by hand
\* the number of files a placement character covers
Width(char) ==
    CASE char = "1" -> 1 [] char = "2" -> 2 [] char = "3" -> 3 [] char = "4" -> 4
      [] char = "5" -> 5 [] char = "6" -> 6 [] char = "7" -> 7 [] char = "8" -> 8
      [] char = "0" -> 0 [] char = "9" -> 9
      [] OTHER -> 1

WhiteLetters == {"P", "N", "B", "R", "Q", "K"}
BlackLetters == {"p", "n", "b", "r", "q", "k"}
GapDigits == {"1", "2", "3", "4", "5", "6", "7", "8"}

LetterType(char) ==
    CASE char \in {"P", "p"} -> PAWN
      [] char \in {"N", "n"} -> KNIGHT
      [] char \in {"B", "b"} -> BISHOP
      [] char \in {"R", "r"} -> ROOK
      [] char \in {"Q", "q"} -> QUEEN
      [] char \in {"K", "k"} -> KING

\* the files covered by the characters a .. b of a placement
RECURSIVE Span(_, _, _)
Span(p, a, b) == IF a > b THEN 0 ELSE Width(p[a]) + Span(p, a + 1, b)

\* the first character of the rank segment that holds character i
SegmentFirst(p, i) ==
    LET slashes == {j \in 1..(i - 1) : p[j] = "/"}
    IN  IF slashes = {} THEN 1
        ELSE (CHOOSE j \in slashes : \A k \in slashes : k <= j) + 1

\* the square of placement character i: the first segment is rank 7
RankOf(p, i) == N - 1 - Cardinality({j \in 1..(i - 1) : p[j] = "/"})
FileOf(p, i) == Span(p, SegmentFirst(p, i), i - 1)

LettersOf(p) == {i \in 1..Len(p) : p[i] \in WhiteLetters \cup BlackLetters}

\* the last characters of the rank segments
SegmentEnds(p) ==
    {i \in 1..Len(p) : p[i] # "/" /\ (i = Len(p) \/ p[i + 1] = "/")}

UnknownLetter(p) ==
    \E i \in 1..Len(p) :
        p[i] \notin WhiteLetters \cup BlackLetters \cup GapDigits \cup {"/"}

BadSegment(p) ==
    \/ Cardinality(SegmentEnds(p)) # N
    \/ Cardinality({i \in 1..Len(p) : p[i] = "/"}) # N - 1
    \/ \E i \in SegmentEnds(p) : Span(p, SegmentFirst(p, i), i) # N

\* the three defects of an encoding the specification names
Malformed(parts) ==
    \/ Len(parts) < 6
    \/ UnknownLetter(parts[1])
    \/ BadSegment(parts[1])

Decimal(chars) ==
    Len(chars) > 0 /\ \A i \in 1..Len(chars) : chars[i] \in GapDigits \cup {"0", "9"}

RECURSIVE Value(_)
Value(chars) ==
    IF chars = <<>> THEN 0
    ELSE 10 * Value(SubSeq(chars, 1, Len(chars) - 1)) + Width(chars[Len(chars)])

WellFormed(parts) ==
    /\ ~Malformed(parts)
    /\ Len(parts) = 6
    /\ parts[2] \in {"w", "b"}
    /\ Decimal(parts[5])
    /\ Decimal(parts[6])

LacksKing(p) ==
    \/ ~\E i \in 1..Len(p) : p[i] = "K"
    \/ ~\E i \in 1..Len(p) : p[i] = "k"

Loaded == last.op = "load"

\* C14: an encoding with fewer than 6 fields, an unrecognised piece letter
\* or a rank segment that does not total 8 files is refused: the load fails
\* and no board in Active state comes out of it
C14_MalformedRefused ==
    Loaded /\ Malformed(fen) => last.raised /\ ~game_active

\* C15: an otherwise well-formed encoding whose placement lacks the White
\* or the Black king is refused: the load fails and no active board with an
\* absent king comes out of it
C15_MissingKingRefused ==
    Loaded /\ WellFormed(fen) /\ LacksKing(fen[1]) =>
        /\ last.raised
        /\ ~(game_active /\ (white_king = None \/ black_king = None))

Occupied == {sq \in (0..(N - 1)) \X (0..(N - 1)) : get_piece(World, sq[1], sq[2]) # None}

\* placement letter i stands on its square with its class and colour
Placed(p, i) ==
    LET piece == get_piece(World, FileOf(p, i), RankOf(p, i))
    IN  /\ piece # None
        /\ pieces[piece].piece_type = LetterType(p[i])
        /\ pieces[piece].colour = (IF p[i] \in WhiteLetters THEN WHITE ELSE BLACK)
        /\ pieces[piece].file = FileOf(p, i)
        /\ pieces[piece].rank = RankOf(p, i)

OfColour(colour) == {sq \in Occupied : pieces[get_piece(World, sq[1], sq[2])].colour = colour}

KingOn(king, file, rank) ==
    /\ king # None
    /\ pieces[king].piece_type = KING
    /\ get_piece(World, file, rank) = king
    /\ get_position(World, king) = <<file, rank>>

\* C16: loading a well-formed encoding puts every placement letter on the
\* square of its rank segment and file offset with the colour of its case
\* and nothing anywhere else, and takes the active colour and the two
\* counters from fields 2, 5 and 6; the default encoding gives 16 pieces per
\* side, White to move, clock 0, move number 1 and the kings on (4, 0), (4, 7)
C16_LoadPlacement ==
    Loaded /\ WellFormed(fen) =>
        /\ ~last.raised
        /\ game_active
        /\ \A i \in LettersOf(fen[1]) : Placed(fen[1], i)
        /\ Cardinality(Occupied) = Cardinality(LettersOf(fen[1]))
        /\ active_colour = (IF fen[2] = "w" THEN WHITE ELSE BLACK)
        /\ halfmove_clock = Value(fen[5])
        /\ fullmove_number = Value(fen[6])
        /\ fen = DefaultFen =>
               /\ Cardinality(OfColour(WHITE)) = 16
               /\ Cardinality(OfColour(BLACK)) = 16
               /\ active_colour = WHITE
               /\ halfmove_clock = 0
               /\ fullmove_number = 1
               /\ KingOn(white_king, 4, 0)
               /\ KingOn(black_king, 4, 7)

\* the default encoding has been loaded into a board of 32 pieces
C16_Witness ==
    /\ Loaded
    /\ fen = DefaultFen
    /\ WellFormed(fen)
    /\ ~last.raised
    /\ Cardinality(Occupied) = 32

\* ---------------------------------------------------- attacks by geometry
Abs(x) == IF x < 0 THEN -x ELSE x
Sign(x) == IF x < 0 THEN -1 ELSE IF x > 0 THEN 1 ELSE 0
Squares == (0..(N - 1)) \X (0..(N - 1))

\* the squares strictly between two squares of one line are empty
ClearBetween(w, from, to) ==
    LET dx == Sign(to[1] - from[1])
        dy == Sign(to[2] - from[2])
        steps == IF Abs(to[1] - from[1]) > Abs(to[2] - from[2])
                 THEN Abs(to[1] - from[1]) ELSE Abs(to[2] - from[2])
    IN  \A m \in 1..(steps - 1) : w.board[from[2] + m * dy][from[1] + m * dx] = None

\* the piece on square sq attacks the king of the given colour on square at
Threatens(w, sq, colour, at) ==
    LET piece == w.board[sq[2]][sq[1]]
        dx == sq[1] - at[1]
        dy == sq[2] - at[2]
        kind == w.pieces[piece].piece_type
    IN  /\ piece # None
        /\ w.pieces[piece].colour # colour
        /\ \/ /\ kind \in {BISHOP, QUEEN}
              /\ Abs(dx) = Abs(dy) /\ dx # 0
              /\ ClearBetween(w, at, sq)
           \/ /\ kind \in {ROOK, QUEEN}
              /\ (dx = 0) # (dy = 0)
              /\ ClearBetween(w, at, sq)
           \/ /\ kind = KNIGHT
              /\ {Abs(dx), Abs(dy)} = {1, 2}
           \/ /\ kind = PAWN
              /\ Abs(dx) = 1
              /\ dy = (IF colour = WHITE THEN 1 ELSE -1)

Threatened(w, king) ==
    \E sq \in Squares :
        Threatens(w, sq, w.pieces[king].colour, <<w.pieces[king].file, w.pieces[king].rank>>)

\* the kings standing on the grid on the square they record
KingsOnGrid(w) ==
    {king \in OnGrid(w) :
        /\ w.pieces[king].piece_type = KING
        /\ OnBoard(w.pieces[king].file, w.pieces[king].rank)
        /\ w.board[w.pieces[king].rank][w.pieces[king].file] = king}

\* C17: for a king of either colour on any square, in_check returns a
\* boolean without reading outside the grid, and it returns true exactly
\* when an opposing bishop or queen is first on a diagonal ray, an opposing
\* rook or queen is first on an orthogonal ray, an opposing knight is on a
\* knight offset, or an opposing pawn is one rank forward and one file aside
C17_InCheckExact ==
    \A king \in KingsOnGrid(World) :
        \A chk \in {in_check(World, king)} :
            /\ ~chk.raised
            /\ chk.value = Threatened(World, king)

\* ----------------------------------------------------- the click handlers
LastRank(rank) == rank = 0 \/ rank = N - 1

\* the last click was a second click on a destination of the selected
\* piece's move list
MovedByClick(l) == l.op = "second"

\* C12: when a second click moves a pawn onto rank 0 or rank 7, promotion
\* becomes pending and the turn stays with the mover until
\* handle_promotion_click has replaced the pawn
C12_PromotionPending ==
    MovedByClick(last) /\ last.piece_type = PAWN /\ LastRank(last.destination[2]) =>
        /\ ~last.raised
        /\ promotion_pending
        /\ active_colour = pieces[last.piece].colour

\* C20: every completed move made by clicks, the second click of a
\* non-promoting move or the promotion click of a promoting one, runs
\* update_game_state exactly once and leaves no selected piece and no
\* destination square for the next click
C20_UpdateOncePerMove ==
    [][(\/ /\ MovedByClick(last')
           /\ ~(last'.piece_type = PAWN /\ LastRank(last'.destination[2]))
        \/ /\ last'.op = "promotion"
           /\ promotion_pending /\ ~promotion_pending')
       => /\ updates' = updates + 1
          /\ selected_piece' = None
          /\ destination_square' = NoSquare]_vars

\* C21: a second click on a square of the selected piece's list moves the
\* piece to a destination that generate_moves returns for it in the position
\* current at the time of the move; a second click on any other square
\* deselects the piece and leaves the position unchanged
C21_MovesFromFreshList ==
    [][/\ MovedByClick(last') =>
              \E gen \in {generate_moves(World, selected_piece)} :
                  ~gen.raised /\ last'.destination \in Range(gen.moves)
       /\ last'.op = "deselect" =>
              /\ selected_piece' = None
              /\ board' = board
              /\ pieces' = pieces]_vars

\* ------------------------------------------------- the filters that ran
SelfCheck == "filter_self_check_moves"
InCheck == "filter_in_check_moves"

FilterNames(gen) == [i \in 1..Len(gen.calls) |-> gen.calls[i].filter]

\* the candidates pass filter_self_check_moves and what it keeps passes
\* filter_in_check_moves
BothFilters(w, self, gen) ==
    /\ FilterNames(gen) = <<SelfCheck, InCheck>>
    /\ \A i \in 1..2 : gen.calls[i].piece = self
    /\ gen.calls[1].moves = Candidates(w, self).moves
    /\ Range(gen.calls[2].moves) \subseteq Range(gen.calls[1].moves)
    /\ Range(gen.moves) \subseteq Range(gen.calls[2].moves)

\* a piece on the grid whose generation ends without an exception
Generates(w, self, gen) == self \in OnGrid(w) /\ ~gen.raised

\* C22 as stated: during Queen.generate_moves no candidate of the queen is
\* given to filter_in_check_moves, while the candidates of every other kind
\* pass filter_self_check_moves and then filter_in_check_moves
C22_QueenSkipsInCheck ==
    \A self \in OnGrid(World) :
        \A gen \in {generate_moves(World, self)} :
            ~gen.raised =>
                IF pieces[self].piece_type = QUEEN
                THEN \A i \in 1..Len(gen.calls) :
                         gen.calls[i].filter = InCheck =>
                             Range(gen.calls[i].moves)
                                 \cap Range(Candidates(World, self).moves) = {}
                ELSE BothFilters(World, self, gen)

\* C22 amended: the rook-ray candidates of a queen pass both filters inside
\* Rook.generate_moves, its bishop-ray candidates pass both inside
\* Bishop.generate_moves, and the two results joined pass
\* filter_self_check_moves once more; every other kind passes both filters
C22_QueenFilteredTwice ==
    \A self \in OnGrid(World) :
        \A gen \in {generate_moves(World, self)} :
            ~gen.raised =>
                IF pieces[self].piece_type = QUEEN
                THEN /\ FilterNames(gen) = <<SelfCheck, InCheck, SelfCheck, InCheck, SelfCheck>>
                     /\ \A i \in 1..Len(gen.calls) : gen.calls[i].piece = self
                     /\ gen.calls[1].moves = SliderCandidates(World, self, RookDirs)
                     /\ Range(gen.calls[2].moves) \subseteq Range(gen.calls[1].moves)
                     /\ gen.calls[3].moves = SliderCandidates(World, self, BishopDirs)
                     /\ Range(gen.calls[4].moves) \subseteq Range(gen.calls[3].moves)
                     /\ Range(gen.calls[5].moves)
                            \subseteq Range(gen.calls[2].moves) \cup Range(gen.calls[4].moves)
                     /\ gen.moves = SelectSeq(gen.calls[5].moves,
                                              LAMBDA sq : sq \in Range(gen.moves))
                ELSE BothFilters(World, self, gen)

\* after a completed move a queen returns rook-ray and bishop-ray squares,
\* and squares of both kinds were given to filter_in_check_moves
C22_Witness ==
    /\ CompletedMove(last)
    /\ \E self \in OnGrid(World) :
           /\ pieces[self].piece_type = QUEEN
           /\ \E gen \in {generate_moves(World, self)} :
                  /\ ~gen.raised
                  /\ Len(gen.calls) = 5
                  /\ gen.calls[2].moves # <<>>
                  /\ gen.calls[4].moves # <<>>
                  /\ Range(gen.moves) \cap Range(SliderCandidates(World, self, RookDirs)) # {}
                  /\ Range(gen.moves) \cap Range(SliderCandidates(World, self, BishopDirs)) # {}

\* ------------------------------------------------------------ slider rays
Diagonal(from, to) ==
    from # to /\ Abs(to[1] - from[1]) = Abs(to[2] - from[2])

Orthogonal(from, to) ==
    from # to /\ (to[1] = from[1] \/ to[2] = from[2])

\* the squares a slider on `from` reaches along lines of the given kind:
\* nothing stands between, and the square is empty or holds the other colour
Reach(w, self, Line(_, _)) ==
    {sq \in Squares :
        /\ Line(get_position(w, self), sq)
        /\ ClearBetween(w, get_position(w, self), sq)
        /\ \/ w.board[sq[2]][sq[1]] = None
           \/ w.pieces[w.board[sq[2]][sq[1]]].colour # w.pieces[self].colour}

\* an own piece is the first occupant of one of the lines
OwnBlocker(w, self, Line(_, _)) ==
    \E sq \in Squares :
        /\ Line(get_position(w, self), sq)
        /\ ClearBetween(w, get_position(w, self), sq)
        /\ w.board[sq[2]][sq[1]] # None
        /\ w.pieces[w.board[sq[2]][sq[1]]].colour = w.pieces[self].colour

ExactlyReach(w, self, moves, Line(_, _)) ==
    /\ Range(moves) = Reach(w, self, Line)
    /\ Cardinality(Range(moves)) = Len(moves)

\* C23: the pseudo-legal squares of a bishop are, on each of the 4 diagonal
\* directions, the empty squares up to the first occupied square or the
\* edge plus that square when it holds an opposing piece, and those of a
\* rook the same on the 4 orthogonal directions: nothing behind a blocker,
\* no square of an own piece
C23_SliderRays ==
    \A self \in OnGrid(World) :
        /\ pieces[self].piece_type = BISHOP =>
               ExactlyReach(World, self, SliderCandidates(World, self, BishopDirs), Diagonal)
        /\ pieces[self].piece_type = ROOK =>
               ExactlyReach(World, self, SliderCandidates(World, self, RookDirs), Orthogonal)

\* after a completed move a rook has a ray that ends on an opposing piece
\* with a square behind it and a ray stopped by an own piece, and a bishop
\* has a ray stopped by an own piece
C23_Witness ==
    /\ CompletedMove(last)
    /\ \E self \in OnGrid(World) :
           /\ pieces[self].piece_type = ROOK
           /\ OwnBlocker(World, self, Orthogonal)
           /\ \E sq \in Reach(World, self, Orthogonal) :
                  /\ board[sq[2]][sq[1]] # None
                  /\ OnBoard(2 * sq[1] - pieces[self].file, 2 * sq[2] - pieces[self].rank)
                  /\ sq \in Range(SliderCandidates(World, self, RookDirs))
    /\ \E self \in OnGrid(World) :
           /\ pieces[self].piece_type = BISHOP
           /\ OwnBlocker(World, self, Diagonal)
           /\ SliderCandidates(World, self, BishopDirs) # <<>>

\* C24: every piece a click moves has the active colour at the time of the
\* move; a first click on an empty square or on a piece of the other colour
\* selects nothing and changes neither the position nor the selection
C24_TurnEnforced ==
    [][/\ MovedByClick(last') => pieces[last'.piece].colour = active_colour
       /\ (/\ last'.op = "first"
           /\ (last'.piece = None \/ pieces[last'.piece].colour # active_colour))
          => /\ selected_piece' = selected_piece
             /\ destination_square' = destination_square
             /\ board' = board
             /\ pieces' = pieces
             /\ active_colour' = active_colour]_vars

\* a second click has moved a piece of the active colour to another square
C24_Witness ==
    /\ MovedByClick(last)
    /\ last.origin # last.destination
    /\ board[last.destination[2]][last.destination[1]] = last.piece
    /\ pieces[last.piece].colour = active_colour

\* -------------------------------------------------- grid and piece records
\* every piece found on a cell records that cell, and no piece is found on
\* two cells
Consistent(w) ==
    /\ \A sq \in Squares :
           w.board[sq[2]][sq[1]] # None =>
               get_position(w, w.board[sq[2]][sq[1]]) = sq
    /\ \A sq \in Squares, other \in Squares :
           (w.board[sq[2]][sq[1]] # None /\ w.board[sq[2]][sq[1]] = w.board[other[2]][other[1]])
               => sq = other

\* the Board calls a first click on the piece makes: generate_moves, and
\* inside it move_piece and undo_move for each candidate of the piece
ConsistentThroughGeneration(w, self) ==
    /\ \A gen \in {generate_moves(w, self)} : Consistent(gen.w)
    /\ \A cand \in {Candidates(w, self)} :
           ~cand.raised =>
               \A i \in 1..Len(cand.moves) :
                   \A m \in {move_piece(w, self, cand.moves[i])} :
                       /\ Consistent(m.w)
                       /\ Consistent(undo_move(m.w, self, get_position(w, self),
                                               m.captured_piece))

\* C25: after the load and after every move_piece, undo_move, promote_pawn
\* and generate_moves of a game driven by clicks, every piece on a cell
\* records the file and rank of that cell and stands on no other cell
C25_GridConsistent ==
    /\ Consistent(World)
    /\ \A self \in OnGrid(World) :
           pieces[self].colour = active_colour => ConsistentThroughGeneration(World, self)

\* ------------------------------------------------------ filter redundancy
\* two filter results agree: both raise, or both return the same list and
\* leave the same board
SameResult(a, b) ==
    /\ a.raised = b.raised
    /\ ~a.raised => a.moves = b.moves /\ a.w = b.w

\* the lists the filters are asked about: the candidates of the piece and
\* the list of a piece that has none
ListsOf(w, self) ==
    {<<>>} \cup (IF Candidates(w, self).raised THEN {} ELSE {Candidates(w, self).moves})

\* filtering what filter_self_check_moves kept, with either filter, keeps
\* all of it
Redundant(w, self, moves) ==
    \A kept \in {filter_self_check_moves(w, self, moves)} :
        ~kept.raised =>
            /\ SameResult(filter_in_check_moves(kept.w, self, kept.moves), kept)
            /\ SameResult(filter_self_check_moves(kept.w, self, kept.moves), kept)

\* the queen's list is the one both filters give for its rook-ray and
\* bishop-ray candidates together
QueenAsBoth(w, self) ==
    SameResult(generate_moves(w, self),
               FilterBoth(w, self, Listed(SliderCandidates(w, self, RookDirs)
                                              \o SliderCandidates(w, self, BishopDirs))))

\* C26: for every piece, board and candidate list, filter_in_check_moves of
\* the result of filter_self_check_moves is that result, and
\* filter_self_check_moves applied twice is filter_self_check_moves; a
\* queen's list equals both filters applied to its rook-ray and bishop-ray
\* candidates together
C26_FilterRedundancy ==
    \A self \in OnGrid(World) :
        /\ \A moves \in ListsOf(World, self) : Redundant(World, self, moves)
        /\ pieces[self].piece_type = QUEEN => QueenAsBoth(World, self)

====
